---- MODULE Spec2Model ----
(***************************************************************************)
(* The Server-Sent-Events notification view of quickpin                    *)
(* (lib/app/views/notification.py): NotificationView.index negotiates the  *)
(* request and subscribes a Redis pubsub handle to the fixed channel set;  *)
(* NotificationView._stream is the response generator that primes the      *)
(* stream and then forwards every pubsub message as one numbered frame.    *)
(*                                                                         *)
(* Text is modelled as it is in the program: a bytes value is a sequence   *)
(* of byte values 0..255, a str is a sequence of code points.              *)
(***************************************************************************)
EXTENDS Integers, Sequences, FiniteSets, TLC

\* ---------------------------------------------------------------- bounds
\* Number of client connections (requests) the model follows.
NumConns == 2
\* Number of publish calls producers make in one behaviour.
MaxPublish == 2

Conns == 1..NumConns

\* ------------------------------------------------------- text and bytes
\* 'avatar' and 'profile' as the bytes Redis carries them in.
ChAvatar == <<97, 118, 97, 116, 97, 114>>
ChProfile == <<112, 114, 111, 102, 105, 108, 101>>

\* NotificationView.CHANNELS
CHANNELS == {ChAvatar, ChProfile}

\* 'note': a channel name producers may use that is not in CHANNELS.
ChNote == <<110, 111, 116, 101>>

\* The literal pieces of the format string 'id: {}\nevent: {}\ndata: {}\n\n'.
StrId == <<105, 100, 58, 32>>
StrEvent == <<10, 101, 118, 101, 110, 116, 58, 32>>
StrData == <<10, 100, 97, 116, 97, 58, 32>>
StrEnd == <<10, 10>>

\* Payloads producers publish: b'42', b'7', and a byte string that is not
\* valid UTF-8 (b'\xff').
Payload42 == <<52, 50>>
Payload7 == <<55>>
PayloadBad == <<255>>
\* b'a\n\nb': a payload that contains the blank line that ends a frame.
PayloadBlankLine == <<97, 10, 10, 98>>

\* str(n) for a non-negative integer, as '{}'.format(n) renders it.
RECURSIVE Decimal(_)
Decimal(n) ==
    IF n < 10 THEN <<48 + n>>
    ELSE Decimal(n \div 10) \o <<48 + (n % 10)>>

IsCont(b) == b >= 128 /\ b <= 191

\* Length of the UTF-8 sequence that starts b, 0 when b does not start with
\* a well-formed sequence.
Utf8SeqLen(b) ==
    IF b[1] < 128 THEN 1
    ELSE IF /\ b[1] >= 194 /\ b[1] <= 223
            /\ Len(b) >= 2 /\ IsCont(b[2]) THEN 2
    ELSE IF /\ b[1] >= 224 /\ b[1] <= 239
            /\ Len(b) >= 3 /\ IsCont(b[2]) /\ IsCont(b[3])
            /\ (b[1] = 224 => b[2] >= 160)
            /\ (b[1] = 237 => b[2] <= 159) THEN 3
    ELSE IF /\ b[1] >= 240 /\ b[1] <= 244
            /\ Len(b) >= 4 /\ IsCont(b[2]) /\ IsCont(b[3]) /\ IsCont(b[4])
            /\ (b[1] = 240 => b[2] >= 144)
            /\ (b[1] = 244 => b[2] <= 143) THEN 4
    ELSE 0

\* The code point of the well-formed sequence of length n that starts b.
Utf8CodePoint(b, n) ==
    CASE n = 1 -> b[1]
      [] n = 2 -> (b[1] - 192) * 64 + (b[2] - 128)
      [] n = 3 -> (b[1] - 224) * 4096 + (b[2] - 128) * 64 + (b[3] - 128)
      [] n = 4 -> (b[1] - 240) * 262144 + (b[2] - 128) * 4096
                    + (b[3] - 128) * 64 + (b[4] - 128)

\* bytes.decode('utf8'): ok is FALSE where Python raises UnicodeDecodeError.
Utf8Decode(b) ==
    LET rest(i) == SubSeq(b, i, Len(b))
        valid[i \in 1..(Len(b) + 1)] ==
            IF i > Len(b) THEN TRUE
            ELSE /\ Utf8SeqLen(rest(i)) # 0
                 /\ valid[i + Utf8SeqLen(rest(i))]
        text[i \in 1..(Len(b) + 1)] ==
            IF i > Len(b) THEN <<>>
            ELSE <<Utf8CodePoint(rest(i), Utf8SeqLen(rest(i)))>>
                     \o text[i + Utf8SeqLen(rest(i))]
    IN IF valid[1] THEN [ok |-> TRUE, text |-> text[1]]
       ELSE [ok |-> FALSE, text |-> <<>>]

\* Mutant of Format: the frame ends with one line feed only.
FormatShortEnd(id, channel, data) ==
    StrId \o Decimal(id) \o StrEvent \o channel \o StrData \o data \o <<10>>

\* Mutant of Format: the two string arguments in the wrong order.
FormatSwapped(id, channel, data) ==
    StrId \o Decimal(id) \o StrEvent \o data \o StrData \o channel \o StrEnd

\* 'id: {}\nevent: {}\ndata: {}\n\n'.format(event_id, channel, data)
Format(id, channel, data) ==
    StrId \o Decimal(id) \o StrEvent \o channel \o StrData \o data \o StrEnd

\* ------------------------------------------------------------- requests
\* An Accept header is the list of media types it names; <<>> is a request
\* without the header.  The header's string value is the one type alone
\* exactly when the list has that single element.
TextEventStream == "text/event-stream"
TextHtml == "text/html"
AcceptHeaders ==
    { <<>>, <<TextEventStream>>, <<TextEventStream, TextHtml>>, <<TextHtml>> }

\* Mutant of AcceptsStream: only the presence of the header is tested.
AcceptsStreamPresent(hdr) == hdr # <<>>

\* request.headers.get('Accept') == 'text/event-stream'
AcceptsStream(hdr) == hdr = <<TextEventStream>>

\* Mutant of IgnoreSubscribeMessages: the option is left at its default.
IgnoreSubscribeMessagesOff == FALSE

\* redis.pubsub(ignore_subscribe_messages=True)
IgnoreSubscribeMessages == TRUE

\* ---------------------------------------------------------------- state
VARIABLES
    pc,          \* per connection: where the request / the generator is
    accept,      \* per connection: the Accept header of its request
    pubsub,      \* per connection: the pubsub handle made by index
    inbox,       \* per connection: broker messages not yet read by listen()
    event_id,    \* per connection: the generator's local event_id (0: unset)
    written,     \* per connection: the chunks written to the client
    clientOpen,  \* per connection: the client transport is still open
    error,       \* per connection: the exception that left the handler
    subscribeCalls, \* per connection: calls of pubsub.subscribe
    received,    \* history: data messages the broker sent to the session
    subAt,       \* history: number of events published before subscribe
    pendingAtPrime, \* history: data messages waiting when '' was written
    log,         \* history: every event published, in order
    usernames,   \* the ProfileUsername objects constructed, in order
    profiles,    \* the Profile objects constructed, in order
    built,       \* history: the username argument of each Profile
    clock,       \* the day datetime.now() returns
    raised       \* the exception of the last model constructor call

viewVars == <<pc, accept, pubsub, inbox, event_id, written, clientOpen, error,
              subscribeCalls, received, subAt, pendingAtPrime, log>>

profileVars == <<usernames, profiles, built, clock, raised>>

vars == <<pc, accept, pubsub, inbox, event_id, written, clientOpen, error,
          subscribeCalls, received, subAt, pendingAtPrime, log,
          usernames, profiles, built, clock, raised>>

\* The states of one connection.
\*   Idle      no request made yet
\*   Rejected  index raised NotAcceptable
\*   Aborted   index raised the broker's connection error
\*   Priming   index returned the Response; the generator has not run
\*   Waiting   the generator is blocked in pubsub.listen()
\*   Closed    the server closed the generator after a failed write
\*   Failed    an exception left the generator
\*   Ended     listen() ended and the generator returned
Terminal == {"Closed", "Failed", "Ended"}

DataMessage(ch, payload) == [type |-> "message", channel |-> ch, data |-> payload]
\* The acknowledgement Redis sends for each subscribed channel; its data is
\* the subscription count, an integer.
AckMessage(ch, count) == [type |-> "subscribe", channel |-> ch, data |-> count]

IsData(m) == m.type = "message"

\* What producers publish: ('profile', b'42'), ('avatar', b'7') and an
\* avatar event whose payload does not decode.
Events ==
    { DataMessage(ChProfile, Payload42),
      DataMessage(ChAvatar, Payload7),
      DataMessage(ChAvatar, PayloadBad) }

\* What producers publish in the specifications of the wire format: the two
\* plain events, the undecodable one, one whose payload holds a blank line,
\* and one on a channel outside CHANNELS.
WireEvents ==
    { DataMessage(ChProfile, Payload42),
      DataMessage(ChAvatar, Payload7),
      DataMessage(ChAvatar, PayloadBad),
      DataMessage(ChAvatar, PayloadBlankLine),
      DataMessage(ChNote, Payload7) }

\* Mutant of SubscribedChannels: the handle is subscribed to every channel.
SubscribedEverything == CHANNELS \cup {ChNote}

\* Mutant of SubscribedChannels: 'profile' is missing from the subscription.
SubscribedAvatarOnly == {ChAvatar}

\* pubsub.subscribe(*self.__class__.CHANNELS): the channels of a handle.
SubscribedChannels == CHANNELS

\* pubsub.subscribe(*CHANNELS): the acknowledgements arrive in the order of
\* the CHANNELS tuple, ahead of anything published afterwards.
SubscribeAcks == <<AckMessage(ChAvatar, 1), AckMessage(ChProfile, 2)>>

\* Mutant of HandleOf: one pubsub handle shared by every request.
HandleShared(c) == 1

\* The pubsub handle the session of connection c owns: index makes a new
\* one for every request and hands it to that request's generator.
HandleOf(c) == c

\* Mutant of InitialEventId: a counter shared by the sessions, so that a
\* new session goes on from the highest id reached so far.
InitialEventIdShared(c) ==
    LET ids == {1} \cup {event_id[d] : d \in Conns}
    IN CHOOSE m \in ids : \A n \in ids : m >= n

\* event_id = 1
InitialEventId(c) == 1

\* Mutant of NextEventId: the increment is lost.
NextEventIdStuck(id) == id

\* event_id += 1
NextEventId(id) == id + 1

\* Mutant of PrimingChunk: the stream is primed with an SSE comment line.
PrimingChunkComment == <<58, 10, 10>>

\* yield ''
PrimingChunk == <<>>

\* Position in queue q of the next message listen() yields, 0 when it has to
\* block: with ignore_subscribe_messages the acknowledgements are read and
\* dropped inside listen().
ListenIndex(q) ==
    LET cand == IF IgnoreSubscribeMessages
                THEN {i \in 1..Len(q) : IsData(q[i])}
                ELSE 1..Len(q)
    IN IF cand = {} THEN 0
       ELSE CHOOSE i \in cand : \A j \in cand : i <= j

\* The message the loop of connection c gets next (only where ListenIndex
\* is not 0), and the queue it leaves behind.
NextMessage(c) == inbox[HandleOf(c)][ListenIndex(inbox[HandleOf(c)])]
RestOfInbox(c) ==
    SubSeq(inbox[HandleOf(c)], ListenIndex(inbox[HandleOf(c)]) + 1,
           Len(inbox[HandleOf(c)]))

\* message['channel'].decode('utf8') and message['data'].decode('utf8')
\* both succeed.  An acknowledgement's data is an int, which has no decode.
Decodable(m) ==
    /\ IsData(m)
    /\ Utf8Decode(m.channel).ok
    /\ Utf8Decode(m.data).ok

\* The exception the two decode lines raise for message m.
DecodeError(m) ==
    IF ~Utf8Decode(m.channel).ok THEN "UnicodeDecodeError"
    ELSE IF ~IsData(m) THEN "AttributeError"
    ELSE "UnicodeDecodeError"

\* The frame the loop yields for message m.
FrameFor(id, m) == Format(id, Utf8Decode(m.channel).text, Utf8Decode(m.data).text)

Init ==
    /\ pc = [c \in Conns |-> "Idle"]
    /\ accept = [c \in Conns |-> <<>>]
    /\ pubsub = [c \in Conns |-> "none"]
    /\ inbox = [c \in Conns |-> <<>>]
    /\ event_id = [c \in Conns |-> 0]
    /\ written = [c \in Conns |-> <<>>]
    /\ clientOpen = [c \in Conns |-> TRUE]
    /\ error = [c \in Conns |-> "none"]
    /\ subscribeCalls = [c \in Conns |-> 0]
    /\ received = [c \in Conns |-> <<>>]
    /\ subAt = [c \in Conns |-> 0]
    /\ pendingAtPrime = [c \in Conns |-> 0]
    /\ log = <<>>
    /\ usernames = <<>>
    /\ profiles = <<>>
    /\ built = <<>>
    /\ clock = 1
    /\ raised = "none"

\* ------------------------------------------------ NotificationView.index
\* The Accept header is exactly the streaming type and Redis is reachable:
\* a pubsub handle is made and subscribed to CHANNELS, and the Response
\* wrapping the (not yet started) generator is returned.
IndexAccepted(c, hdr) ==
    /\ pc[c] = "Idle"
    /\ AcceptsStream(hdr)
    /\ pc' = [pc EXCEPT ![c] = "Priming"]
    /\ accept' = [accept EXCEPT ![c] = hdr]
    /\ pubsub' = [pubsub EXCEPT ![HandleOf(c)] = "subscribed"]
    /\ inbox' = [inbox EXCEPT ![HandleOf(c)] = @ \o SubscribeAcks]
    /\ subscribeCalls' = [subscribeCalls EXCEPT ![c] = @ + 1]
    /\ subAt' = [subAt EXCEPT ![c] = Len(log)]
    /\ UNCHANGED <<event_id, written, clientOpen, error, received,
                   pendingAtPrime, log>>
    /\ UNCHANGED profileVars

\* Mutant of IndexBrokerDown: the handle is subscribed by the generator, so
\* the broker's error comes after the priming chunk has been written.
IndexBrokerDownAfterPriming(c, hdr) ==
    /\ pc[c] = "Idle"
    /\ AcceptsStream(hdr)
    /\ pc' = [pc EXCEPT ![c] = "Aborted"]
    /\ accept' = [accept EXCEPT ![c] = hdr]
    /\ error' = [error EXCEPT ![c] = "ConnectionError"]
    /\ written' = [written EXCEPT ![c] = <<PrimingChunk>>]
    /\ subscribeCalls' = [subscribeCalls EXCEPT ![c] = @ + 1]
    /\ UNCHANGED <<pubsub, inbox, event_id, clientOpen, received,
                   subAt, pendingAtPrime, log>>
    /\ UNCHANGED profileVars

\* The Accept header is the streaming type but Redis cannot be reached:
\* subscribe raises, nothing catches it, and index ends with that error.
IndexBrokerDown(c, hdr) ==
    /\ pc[c] = "Idle"
    /\ AcceptsStream(hdr)
    /\ pc' = [pc EXCEPT ![c] = "Aborted"]
    /\ accept' = [accept EXCEPT ![c] = hdr]
    /\ error' = [error EXCEPT ![c] = "ConnectionError"]
    /\ subscribeCalls' = [subscribeCalls EXCEPT ![c] = @ + 1]
    /\ UNCHANGED <<pubsub, inbox, event_id, written, clientOpen, received,
                   subAt, pendingAtPrime, log>>
    /\ UNCHANGED profileVars

\* Any other Accept header: raise NotAcceptable.
IndexRejected(c, hdr) ==
    /\ pc[c] = "Idle"
    /\ ~AcceptsStream(hdr)
    /\ pc' = [pc EXCEPT ![c] = "Rejected"]
    /\ accept' = [accept EXCEPT ![c] = hdr]
    /\ error' = [error EXCEPT ![c] = "NotAcceptable"]
    /\ UNCHANGED <<pubsub, inbox, event_id, written, clientOpen,
                   subscribeCalls, received, subAt, pendingAtPrime, log>>
    /\ UNCHANGED profileVars

\* ---------------------------------------------- NotificationView._stream
\* The server starts the generator and writes the chunk of its first yield;
\* resumed, the generator sets event_id and blocks in listen().  A write to a
\* closed client fails and the server closes the generator instead.
Prime(c) ==
    /\ pc[c] = "Priming"
    /\ IF clientOpen[c]
       THEN /\ written' = [written EXCEPT ![c] = Append(@, PrimingChunk)]
            /\ event_id' = [event_id EXCEPT ![c] = InitialEventId(c)]
            /\ pc' = [pc EXCEPT ![c] = "Waiting"]
            /\ pendingAtPrime' = [pendingAtPrime EXCEPT ![c] =
                   Len(SelectSeq(inbox[HandleOf(c)], IsData))]
       ELSE /\ pc' = [pc EXCEPT ![c] = "Closed"]
            /\ UNCHANGED <<written, event_id, pendingAtPrime>>
    /\ UNCHANGED <<accept, pubsub, inbox, clientOpen, error, subscribeCalls,
                   received, subAt, log>>
    /\ UNCHANGED profileVars

\* One turn of the loop: listen() yields a message, both fields decode, the
\* frame is yielded and written, and the resumed generator adds 1 to
\* event_id before it blocks in listen() again.
DeliverFrame(c) ==
    /\ pc[c] = "Waiting"
    /\ ListenIndex(inbox[HandleOf(c)]) # 0
    /\ Decodable(NextMessage(c))
    /\ clientOpen[c]
    /\ written' = [written EXCEPT ![c] =
                      Append(@, FrameFor(event_id[c], NextMessage(c)))]
    /\ event_id' = [event_id EXCEPT ![c] = NextEventId(@)]
    /\ inbox' = [inbox EXCEPT ![HandleOf(c)] = RestOfInbox(c)]
    /\ UNCHANGED <<pc, accept, pubsub, clientOpen, error, subscribeCalls,
                   received, subAt, pendingAtPrime, log>>
    /\ UNCHANGED profileVars

\* Mutant of DeliverWriteFailed: event_id is incremented before the yield, so
\* the counter moves on although the write failed.
DeliverWriteFailedCounted(c) ==
    /\ pc[c] = "Waiting"
    /\ ListenIndex(inbox[HandleOf(c)]) # 0
    /\ Decodable(NextMessage(c))
    /\ ~clientOpen[c]
    /\ pc' = [pc EXCEPT ![c] = "Closed"]
    /\ event_id' = [event_id EXCEPT ![c] = NextEventId(@)]
    /\ inbox' = [inbox EXCEPT ![HandleOf(c)] = RestOfInbox(c)]
    /\ UNCHANGED <<accept, pubsub, written, clientOpen, error,
                   subscribeCalls, received, subAt, pendingAtPrime, log>>
    /\ UNCHANGED profileVars

\* The same turn with the client gone: the write of the yielded frame fails,
\* the server closes the generator at its yield, event_id += 1 never runs.
DeliverWriteFailed(c) ==
    /\ pc[c] = "Waiting"
    /\ ListenIndex(inbox[HandleOf(c)]) # 0
    /\ Decodable(NextMessage(c))
    /\ ~clientOpen[c]
    /\ pc' = [pc EXCEPT ![c] = "Closed"]
    /\ inbox' = [inbox EXCEPT ![HandleOf(c)] = RestOfInbox(c)]
    /\ UNCHANGED <<accept, pubsub, event_id, written, clientOpen, error,
                   subscribeCalls, received, subAt, pendingAtPrime, log>>
    /\ UNCHANGED profileVars

\* The same turn with a message whose channel or data does not decode: the
\* exception leaves the generator, no frame is yielded.
DeliverDecodeError(c) ==
    /\ pc[c] = "Waiting"
    /\ ListenIndex(inbox[HandleOf(c)]) # 0
    /\ ~Decodable(NextMessage(c))
    /\ pc' = [pc EXCEPT ![c] = "Failed"]
    /\ error' = [error EXCEPT ![c] = DecodeError(NextMessage(c))]
    /\ inbox' = [inbox EXCEPT ![HandleOf(c)] = RestOfInbox(c)]
    /\ UNCHANGED <<accept, pubsub, event_id, written, clientOpen,
                   subscribeCalls, received, subAt, pendingAtPrime, log>>
    /\ UNCHANGED profileVars

\* The broker connection is gone and nothing is left to read: listen() either
\* raises or ends.  Here it raises: the for loop has no handler, the
\* exception leaves the generator.
ListenRaises(c) ==
    /\ pc[c] = "Waiting"
    /\ pubsub[HandleOf(c)] = "lost"
    /\ ListenIndex(inbox[HandleOf(c)]) = 0
    /\ pc' = [pc EXCEPT ![c] = "Failed"]
    /\ error' = [error EXCEPT ![c] = "ConnectionError"]
    /\ UNCHANGED <<accept, pubsub, inbox, event_id, written, clientOpen,
                   subscribeCalls, received, subAt, pendingAtPrime, log>>
    /\ UNCHANGED profileVars

\* Here listen() ends instead: the for loop ends and the generator returns.
ListenEnds(c) ==
    /\ pc[c] = "Waiting"
    /\ pubsub[HandleOf(c)] = "lost"
    /\ ListenIndex(inbox[HandleOf(c)]) = 0
    /\ pc' = [pc EXCEPT ![c] = "Ended"]
    /\ UNCHANGED <<accept, pubsub, inbox, event_id, written, clientOpen, error,
                   subscribeCalls, received, subAt, pendingAtPrime, log>>
    /\ UNCHANGED profileVars

\* ---------------------------------------------------------- environment
\* A producer publishes ev; Redis sends the message to every handle that is
\* subscribed to its channel.
Publish(ev) ==
    /\ Len(log) < MaxPublish
    /\ log' = Append(log, ev)
    /\ inbox' = [h \in Conns |->
                    IF pubsub[h] = "subscribed" /\ ev.channel \in SubscribedChannels
                    THEN Append(inbox[h], ev)
                    ELSE inbox[h]]
    /\ received' = [h \in Conns |->
                    IF pubsub[h] = "subscribed" /\ ev.channel \in SubscribedChannels
                    THEN Append(received[h], ev)
                    ELSE received[h]]
    /\ UNCHANGED <<pc, accept, pubsub, event_id, written, clientOpen, error,
                   subscribeCalls, subAt, pendingAtPrime>>
    /\ UNCHANGED profileVars

\* The broker connection of handle h is dropped or closed.
BrokerDrop(h) ==
    /\ pubsub[h] = "subscribed"
    /\ pubsub' = [pubsub EXCEPT ![h] = "lost"]
    /\ UNCHANGED <<pc, accept, inbox, event_id, written, clientOpen, error,
                   subscribeCalls, received, subAt, pendingAtPrime, log>>
    /\ UNCHANGED profileVars

\* The client of connection c closes its transport.
ClientDisconnect(c) ==
    /\ pc[c] \in {"Priming", "Waiting"}
    /\ clientOpen[c]
    /\ clientOpen' = [clientOpen EXCEPT ![c] = FALSE]
    /\ UNCHANGED <<pc, accept, pubsub, inbox, event_id, written, error,
                   subscribeCalls, received, subAt, pendingAtPrime, log>>
    /\ UNCHANGED profileVars

\* The steps the server thread of connection c takes on its own.
SessionStep(c) ==
    \/ Prime(c)
    \/ DeliverFrame(c)
    \/ DeliverWriteFailed(c)
    \/ DeliverDecodeError(c)
    \/ ListenRaises(c)
    \/ ListenEnds(c)

Next ==
    \/ \E c \in Conns, hdr \in AcceptHeaders : IndexAccepted(c, hdr)
    \/ \E c \in Conns, hdr \in AcceptHeaders : IndexBrokerDown(c, hdr)
    \/ \E c \in Conns, hdr \in AcceptHeaders : IndexRejected(c, hdr)
    \/ \E c \in Conns : SessionStep(c)
    \/ \E ev \in Events : Publish(ev)
    \/ \E h \in Conns : BrokerDrop(h)
    \/ \E c \in Conns : ClientDisconnect(c)

Spec == Init /\ [][Next]_vars

\* The server thread of every connection keeps running; producers, clients
\* and the broker are under no obligation to act.
FairSpec == Spec /\ \A c \in Conns : WF_vars(SessionStep(c))

\* One stream followed through everything producers may publish.
WireConns == {1}

WireNext ==
    \/ \E c \in WireConns : IndexAccepted(c, <<TextEventStream>>)
    \/ \E c \in WireConns : SessionStep(c)
    \/ \E ev \in WireEvents : Publish(ev)
    \/ \E h \in WireConns : BrokerDrop(h)
    \/ \E c \in WireConns : ClientDisconnect(c)

WireSpec == Init /\ [][WireNext]_vars

WireFairSpec == WireSpec /\ \A c \in WireConns : WF_vars(SessionStep(c))

\* ------------------------------------------------------ the client's view
\* The real frames a client has been sent: everything after the first chunk.
Frames(c) == IF written[c] = <<>> THEN <<>> ELSE Tail(written[c])

Includes(hdr, type) == \E i \in 1..Len(hdr) : hdr[i] = type

\* Least position i >= from with s[i] = x; 0 when there is none.
FirstIndex(s, x, from) ==
    LET at == {i \in from..Len(s) : s[i] = x}
    IN IF at = {} THEN 0 ELSE CHOOSE i \in at : \A j \in at : i <= j

\* The number a string of decimal digits denotes.
RECURSIVE ParseDecimal(_)
ParseDecimal(digits) ==
    IF digits = <<>> THEN 0
    ELSE 10 * ParseDecimal(SubSeq(digits, 1, Len(digits) - 1))
           + (digits[Len(digits)] - 48)

\* A frame read back the way a client reads it: the id line, the event line,
\* and the data up to the terminating blank line.
FrameId(f) == ParseDecimal(SubSeq(f, Len(StrId) + 1, FirstIndex(f, 10, 1) - 1))
FrameEvent(f) ==
    LET a == FirstIndex(f, 10, 1)
        b == FirstIndex(f, 10, a + 1)
    IN SubSeq(f, a + Len(StrEvent), b - 1)
FrameData(f) ==
    LET a == FirstIndex(f, 10, 1)
        b == FirstIndex(f, 10, a + 1)
    IN SubSeq(f, b + Len(StrData), Len(f) - Len(StrEnd))

\* str.encode('utf8') of a sequence of code points.
RECURSIVE Utf8Encode(_)
Utf8Encode(t) ==
    IF t = <<>> THEN <<>>
    ELSE LET cp == t[1]
             head == IF cp < 128 THEN <<cp>>
                     ELSE IF cp < 2048
                          THEN <<192 + (cp \div 64), 128 + (cp % 64)>>
                     ELSE IF cp < 65536
                          THEN <<224 + (cp \div 4096),
                                 128 + ((cp \div 64) % 64),
                                 128 + (cp % 64)>>
                     ELSE <<240 + (cp \div 262144),
                            128 + ((cp \div 4096) % 64),
                            128 + ((cp \div 64) % 64),
                            128 + (cp % 64)>>
         IN head \o Utf8Encode(Tail(t))

\* ---------------------------------------------------------------- claims

\* ---------------------------------------------------------------------
\* model/profile.py: the constructors of Profile and ProfileUsername.

MaxUsernames == 2
MaxProfiles == 2
MaxClock == 2

NameA == <<97>>
NameB == <<98>>
Names == {NameA, NameB}

Sites == {"twitter"}
UpstreamIds == {"1"}

\* Values a date argument can have: None, a datetime, a text.
None == [kind |-> "None"]
DateTime(y, m, d) == [kind |-> "datetime", value |-> <<y, m, d>>]
Text(s) == [kind |-> "str", value |-> s]

\* datetime.now()
Now == DateTime(2016, 1, clock)

\* '2015-01-02' and 'soon'
DateText == <<50, 48, 49, 53, 45, 48, 49, 45, 48, 50>>
DateTextBad == <<115, 111, 111, 110>>

\* The (start_date, end_date) arguments tried: each kind of value in each
\* place, accepted and refused.
DateArgs ==
    { <<None, None>>,
      <<DateTime(2014, 6, 30), Text(DateText)>>,
      <<Text(DateText), Text(DateTextBad)>>,
      <<Text(DateTextBad), None>> }

IsDigits(s) == \A i \in 1..Len(s) : s[i] \in 48..57

\* dateutil.parser.parse(s) for a text of the form YYYY-MM-DD; ok is FALSE
\* where it raises ValueError.
ParseDate(s) ==
    LET digit(i) == s[i] - 48
        year == 1000 * digit(1) + 100 * digit(2) + 10 * digit(3) + digit(4)
        month == 10 * digit(6) + digit(7)
        day == 10 * digit(9) + digit(10)
    IN IF /\ Len(s) = 10
          /\ s[5] = 45 /\ s[8] = 45
          /\ IsDigits(SubSeq(s, 1, 4))
          /\ IsDigits(SubSeq(s, 6, 7))
          /\ IsDigits(SubSeq(s, 9, 10))
          /\ month \in 1..12
          /\ day \in 1..31
       THEN [ok |-> TRUE, value |-> DateTime(year, month, day)]
       ELSE [ok |-> FALSE, value |-> None]

\* The date argument d does not make the constructor raise.
DateOk(d) == d.kind = "str" => ParseDate(d.value).ok

\* What the constructor stores for date argument d: nothing for None, the
\* datetime itself, or the parsed text.
DateAttr(d) ==
    IF d.kind = "str" THEN ParseDate(d.value).value ELSE d

\* ProfileUsername.__init__: the new object, owned by no profile yet.
ProfileUsernameInit(username, start_date, end_date) ==
    [username |-> username,
     start_date |-> DateAttr(start_date),
     end_date |-> DateAttr(end_date),
     profile |-> 0]

\* Mutant of StubUsername: the end date is left out.
StubUsernameOpenEnded(username, now) ==
    ProfileUsernameInit(username, now, None)

\* ProfileUsername(username, start_date=now, end_date=now)
StubUsername(username, now) == ProfileUsernameInit(username, now, now)

\* Sequence s without the element u.
Without(s, u) ==
    LET Keep(x) == x # u IN SelectSeq(s, Keep)

\* ProfileUsername(username, start_date, end_date) with dates it accepts.
NewProfileUsername(username, start_date, end_date) ==
    /\ Len(usernames) < MaxUsernames
    /\ DateOk(start_date) /\ DateOk(end_date)
    /\ usernames' = Append(usernames,
                           ProfileUsernameInit(username, start_date, end_date))
    /\ raised' = "none"
    /\ UNCHANGED <<profiles, built, clock>>
    /\ UNCHANGED viewVars

\* The same call with a text dateutil cannot parse: the constructor raises.
NewProfileUsernameBadDate(username, start_date, end_date) ==
    /\ ~(DateOk(start_date) /\ DateOk(end_date))
    /\ raised' = "ValueError"
    /\ UNCHANGED <<usernames, profiles, built, clock>>
    /\ UNCHANGED viewVars

\* Profile(site, upstream_id, username, is_stub) with a plain string.
NewProfileFromString(site, upstream_id, username, is_stub) ==
    /\ Len(profiles) < MaxProfiles
    /\ Len(usernames) < MaxUsernames
    /\ LET now == Now
           u == Len(usernames) + 1
           p == Len(profiles) + 1
       IN /\ usernames' = Append(usernames,
                 [StubUsername(username, now) EXCEPT !.profile = p])
          /\ profiles' = Append(profiles,
                 [site |-> site, upstream_id |-> upstream_id,
                  is_stub |-> is_stub, username |-> username,
                  usernames |-> <<u>>])
          /\ built' = Append(built,
                 [kind |-> "str", name |-> username, object |-> 0])
    /\ raised' = "none"
    /\ UNCHANGED clock
    /\ UNCHANGED viewVars

\* Profile(site, upstream_id, username, is_stub) with the ProfileUsername
\* object u.  Appending u sets its backref, which takes it out of the
\* collection of the profile that owned it.
NewProfileFromObject(site, upstream_id, u, is_stub) ==
    /\ Len(profiles) < MaxProfiles
    /\ u \in 1..Len(usernames)
    /\ LET p == Len(profiles) + 1
       IN /\ usernames' = [usernames EXCEPT ![u].profile = p]
          /\ profiles' = Append(
                 [q \in 1..Len(profiles) |->
                     [profiles[q] EXCEPT !.usernames = Without(@, u)]],
                 [site |-> site, upstream_id |-> upstream_id,
                  is_stub |-> is_stub, username |-> usernames[u].username,
                  usernames |-> <<u>>])
          /\ built' = Append(built,
                 [kind |-> "object", name |-> usernames[u].username,
                  object |-> u])
    /\ raised' = "none"
    /\ UNCHANGED clock
    /\ UNCHANGED viewVars

\* A day passes between two calls of datetime.now().
Tick ==
    /\ clock < MaxClock
    /\ clock' = clock + 1
    /\ UNCHANGED <<usernames, profiles, built, raised>>
    /\ UNCHANGED viewVars

ProfileNext ==
    \/ \E n \in Names, d \in DateArgs : NewProfileUsername(n, d[1], d[2])
    \/ \E n \in Names, d \in DateArgs :
           NewProfileUsernameBadDate(n, d[1], d[2])
    \/ \E site \in Sites, id \in UpstreamIds, n \in Names, stub \in BOOLEAN :
           NewProfileFromString(site, id, n, stub)
    \/ \E site \in Sites, id \in UpstreamIds, u \in 1..MaxUsernames,
          stub \in BOOLEAN :
           NewProfileFromObject(site, id, u, stub)
    \/ Tick

ProfileSpec == Init /\ [][ProfileNext]_vars

\* C1: in every session the real frames written after the priming flush
\* carry the ids 1, 2, ..., N in that order: the k-th frame starts with
\* 'id: ' and its id reads back as k.
C1_SequentialIds ==
    \A c \in Conns :
        \A k \in 1..Len(Frames(c)) :
            /\ SubSeq(Frames(c)[k], 1, Len(StrId)) = StrId
            /\ FrameId(Frames(c)[k]) = k

\* C1 witness: a session that has written two real frames.
C1_Witness == \E c \in Conns : Len(Frames(c)) = 2

\* C2: the k-th real frame of a session carries the channel and the payload
\* of the k-th message the broker sent to it, and while the session is alive
\* and waiting every message sent to it is either framed or still queued.
C2_FramesMatchReceived ==
    \A c \in Conns :
        LET fr == Frames(c)
            rc == received[HandleOf(c)]
        IN /\ Len(fr) <= Len(rc)
           /\ \A k \in 1..Len(fr) :
                  /\ Utf8Encode(FrameEvent(fr[k])) = rc[k].channel
                  /\ Utf8Encode(FrameData(fr[k])) = rc[k].data
           /\ pc[c] = "Waiting" =>
                  Len(fr) + Len(SelectSeq(inbox[HandleOf(c)], IsData)) = Len(rc)

\* C2 witness: a session that has framed a profile event and then an avatar
\* event, in the order it got them.
C2_Witness ==
    \E c \in Conns :
        /\ Len(Frames(c)) = 2
        /\ received[HandleOf(c)] =
               <<DataMessage(ChProfile, Payload42), DataMessage(ChAvatar, Payload7)>>

\* C3: a request whose Accept header does not name the streaming type ends
\* Rejected with NotAcceptable, with no pubsub handle, no subscribe call and
\* nothing written.
C3_RejectedOpensNothing ==
    \A c \in Conns :
        (pc[c] # "Idle" /\ ~Includes(accept[c], TextEventStream)) =>
            /\ pc[c] = "Rejected"
            /\ error[c] = "NotAcceptable"
            /\ pubsub[HandleOf(c)] = "none"
            /\ subscribeCalls[c] = 0
            /\ written[c] = <<>>

\* C3 witness: a request that accepts only text/html has been rejected.
C3_Witness ==
    \E c \in Conns : pc[c] = "Rejected" /\ accept[c] = <<TextHtml>>

\* C4 (as claimed): a request whose Accept header names the streaming type,
\* alone or together with other types, is never Rejected.
C4_AcceptingNeverRejected ==
    \A c \in Conns :
        Includes(accept[c], TextEventStream) => pc[c] # "Rejected"

\* C5: the first chunk written on a stream is the empty priming flush, and
\* every chunk after it is a real frame.
C5_PrimingFirst ==
    \A c \in Conns :
        written[c] # <<>> =>
            /\ written[c][1] = <<>>
            /\ \A k \in 2..Len(written[c]) :
                   SubSeq(written[c][k], 1, Len(StrId)) = StrId

\* C5 witness: a stream primed while an event was already queued for it, and
\* that has since written that event's frame.
C5_Witness ==
    \E c \in Conns : pendingAtPrime[c] > 0 /\ Len(written[c]) = 2

\* C6 (as claimed): once the generator of a stream is over, by whatever
\* path, its pubsub handle has been released.
C6_ReleasedOnClosing ==
    \A c \in Conns :
        pc[c] \in Terminal => pubsub[HandleOf(c)] = "closed"

\* C7 (as claimed): the loss of the broker connection never lets an
\* unhandled error escape the streaming loop.
C7_BrokerLossHandled ==
    \A c \in Conns :
        pubsub[HandleOf(c)] = "lost" =>
            ~(pc[c] = "Failed" /\ error[c] = "ConnectionError")

\* C8 (as claimed): a session whose client has closed the transport while it
\* waits for the next broker message is unblocked: its server thread has a
\* step of its own to take towards its end, whether or not anything is
\* published again.  (Under FairSpec this is what "eventually reaches
\* Closing" needs in a state where nothing else happens.)
C8_DisconnectUnblocks ==
    \A c \in Conns :
        (pc[c] = "Waiting" /\ ~clientOpen[c]) => ENABLED SessionStep(c)

\* C9: every live session has, for each event published since it subscribed,
\* either written its frame or still has it queued, and the frame of its k-th
\* event carries id k whatever ids other sessions have reached.
C9_IndependentSessions ==
    \A c \in Conns :
        (pc[c] = "Waiting" /\ pubsub[HandleOf(c)] = "subscribed") =>
            /\ Len(Frames(c)) + Len(SelectSeq(inbox[HandleOf(c)], IsData))
                   = Len(log) - subAt[c]
            /\ \A k \in 1..Len(Frames(c)) :
                   Frames(c)[k] = FrameFor(k, log[subAt[c] + k])

\* C9 witness: two live sessions, one subscribed before the first event and
\* one after it; the second event is frame 2 of the former and frame 1 of
\* the latter.
C9_Witness ==
    \E c, d \in Conns :
        /\ c # d
        /\ pc[c] = "Waiting" /\ pubsub[HandleOf(c)] = "subscribed"
        /\ pc[d] = "Waiting" /\ pubsub[HandleOf(d)] = "subscribed"
        /\ subAt[c] = 0 /\ subAt[d] = 1
        /\ Len(Frames(c)) = 2 /\ Len(Frames(d)) = 1
        /\ FrameId(Frames(c)[2]) = 2 /\ FrameId(Frames(d)[1]) = 1
        /\ FrameData(Frames(c)[2]) = FrameData(Frames(d)[1])

\* A step in which the session of connection c fails or is torn down.
TearsDown(c) ==
    \/ pc[c] \notin Terminal /\ pc'[c] \in Terminal
    \/ pubsub[HandleOf(c)] = "subscribed" /\ pubsub'[HandleOf(c)] # "subscribed"
    \/ clientOpen[c] /\ ~clientOpen'[c]

\* A step that leaves everything of the session of connection d as it was.
Untouched(d) ==
    /\ pc'[d] = pc[d]
    /\ event_id'[d] = event_id[d]
    /\ written'[d] = written[d]
    /\ clientOpen'[d] = clientOpen[d]
    /\ error'[d] = error[d]
    /\ pubsub'[HandleOf(d)] = pubsub[HandleOf(d)]
    /\ inbox'[HandleOf(d)] = inbox[HandleOf(d)]

\* C10: a step that fails or tears down one session leaves every other
\* session untouched; a publish reaches every session whose subscription is
\* up, and a frame a session writes continues its own ids, whatever state
\* the other sessions are in.
C10_FailureIsolated ==
    [][ /\ \A c, d \in Conns : (c # d /\ TearsDown(c)) => Untouched(d)
        /\ \A d \in Conns :
               (log' # log /\ pubsub[HandleOf(d)] = "subscribed") =>
                   inbox'[HandleOf(d)] =
                       Append(inbox[HandleOf(d)], log'[Len(log')])
        /\ \A d \in Conns :
               (written[d] # <<>> /\ written'[d] # written[d]) =>
                   FrameId(written'[d][Len(written'[d])]) = Len(written[d])
      ]_vars

\* C10 witness: one session has failed on a lost broker connection while
\* another, live, has since been sent and has framed a later event.
C10_Witness ==
    \E c, d \in Conns :
        /\ c # d
        /\ pc[c] = "Failed" /\ error[c] = "ConnectionError"
        /\ pc[d] = "Waiting" /\ pubsub[HandleOf(d)] = "subscribed"
        /\ Len(received[HandleOf(d)]) > Len(received[HandleOf(c)])
        /\ Len(Frames(d)) = Len(received[HandleOf(d)])
        /\ subAt[d] <= subAt[c]

\* ------------------------------------------- the client's event parser
\* Everything written on the connection of c, as one string.
RECURSIVE Concat(_)
Concat(chunks) ==
    IF chunks = <<>> THEN <<>> ELSE chunks[1] \o Concat(Tail(chunks))

Stream(c) == Concat(written[c])

\* Position of the first line feed of s that is followed by another one; 0
\* when s holds no blank line.
BlankAt(s) ==
    LET at == {i \in 1..(Len(s) - 1) : s[i] = 10 /\ s[i + 1] = 10}
    IN IF at = {} THEN 0 ELSE CHOOSE i \in at : \A j \in at : i <= j

\* The blocks of a stream: the text before each blank line.
RECURSIVE ClientBlocks(_)
ClientBlocks(s) ==
    IF BlankAt(s) = 0 THEN <<>>
    ELSE <<SubSeq(s, 1, BlankAt(s) - 1)>>
             \o ClientBlocks(SubSeq(s, BlankAt(s) + 2, Len(s)))

\* The lines of a block.
RECURSIVE ClientLines(_)
ClientLines(b) ==
    IF FirstIndex(b, 10, 1) = 0 THEN <<b>>
    ELSE <<SubSeq(b, 1, FirstIndex(b, 10, 1) - 1)>>
             \o ClientLines(SubSeq(b, FirstIndex(b, 10, 1) + 1, Len(b)))

\* A line as a field: the name before the first colon, the value after it
\* less one leading space; a line without a colon is a name with no value.
FieldName(line) ==
    IF FirstIndex(line, 58, 1) = 0 THEN line
    ELSE SubSeq(line, 1, FirstIndex(line, 58, 1) - 1)
FieldValue(line) ==
    LET p == FirstIndex(line, 58, 1)
    IN IF p = 0 THEN <<>>
       ELSE IF p < Len(line) /\ line[p + 1] = 32
            THEN SubSeq(line, p + 2, Len(line))
            ELSE SubSeq(line, p + 1, Len(line))

NameId == <<105, 100>>
NameEvent == <<101, 118, 101, 110, 116>>
NameData == <<100, 97, 116, 97>>

\* The event a client builds from the lines of one block: the last id and
\* event fields, the data fields joined by line feeds; other lines are
\* ignored.
RECURSIVE ClientFields(_, _)
ClientFields(lines, acc) ==
    IF lines = <<>> THEN acc
    ELSE LET n == FieldName(lines[1])
             v == FieldValue(lines[1])
             next == IF n = NameId THEN [acc EXCEPT !.id = v]
                     ELSE IF n = NameEvent THEN [acc EXCEPT !.event = v]
                     ELSE IF n = NameData
                          THEN [acc EXCEPT
                                   !.data = IF acc.hasData THEN @ \o <<10>> \o v
                                            ELSE v,
                                   !.hasData = TRUE]
                     ELSE acc
         IN ClientFields(Tail(lines), next)

ClientEvent(block) ==
    ClientFields(ClientLines(block),
                 [id |-> <<>>, event |-> <<>>, data |-> <<>>, hasData |-> FALSE])

\* The events a client dispatches for a stream: one for every block that has
\* a data field.
RECURSIVE Dispatched(_)
Dispatched(blocks) ==
    IF blocks = <<>> THEN <<>>
    ELSE LET e == ClientEvent(blocks[1])
         IN (IF e.hasData
             THEN <<[id |-> e.id, event |-> e.event, data |-> e.data]>>
             ELSE <<>>) \o Dispatched(Tail(blocks))

ClientEvents(c) == Dispatched(ClientBlocks(Stream(c)))

\* What the client of c should have got: for the k-th frame written, the
\* k-th message sent to the session, numbered k.
ExpectedEvents(c) ==
    [k \in 1..Len(Frames(c)) |->
        [id |-> Decimal(k),
         event |-> Utf8Decode(received[HandleOf(c)][k].channel).text,
         data |-> Utf8Decode(received[HandleOf(c)][k].data).text]]

\* C11 (as claimed): whatever the payloads, the events a client parses from
\* what was written are exactly one per frame written, each with the id,
\* the channel and the complete payload of its event.
C11_ClientSeesWholeFrames ==
    \A c \in Conns : ClientEvents(c) = ExpectedEvents(c)

\* C12: a request that found the broker unreachable has ended with the
\* broker's error before anything was written, and holds no pubsub handle,
\* no queue and no counter, then and ever after.
C12_AbortedBeforeAnyData ==
    \A c \in Conns :
        pc[c] = "Aborted" =>
            /\ error[c] = "ConnectionError"
            /\ written[c] = <<>>
            /\ pubsub[HandleOf(c)] = "none"
            /\ inbox[HandleOf(c)] = <<>>
            /\ event_id[c] = 0

\* C12 witness: a request aborted by an unreachable broker, with an event
\* published since.
C12_Witness ==
    \E c \in Conns : pc[c] = "Aborted" /\ Len(log) >= 1

IsAck(m) == ~IsData(m)

\* C14: an acknowledgement never reaches the decode lines, a waiting
\* session's event_id is 1 plus the number of data messages it has taken
\* from its queue, and once a frame is written the acknowledgements are gone
\* from the queue without having made a frame.
C14_AcksMakeNoFrames ==
    \A c \in Conns :
        LET q == inbox[HandleOf(c)]
            taken == Len(received[HandleOf(c)]) - Len(SelectSeq(q, IsData))
        IN /\ error[c] # "AttributeError"
           /\ pc[c] = "Waiting" =>
                  /\ event_id[c] = 1 + taken
                  /\ Len(Frames(c)) = taken
           /\ Len(Frames(c)) >= 1 => SelectSeq(q, IsAck) = <<>>

\* C14 witness: a session that has written two frames and whose queue, which
\* began with the two acknowledgements, is empty.
C14_Witness ==
    \E c \in Conns :
        /\ subscribeCalls[c] = 1
        /\ Len(Frames(c)) = 2
        /\ inbox[HandleOf(c)] = <<>>

\* 'id: 1\nevent: profile\ndata: 42\n\n'
ExpectedFrame1 ==
    <<105, 100, 58, 32, 49, 10, 101, 118, 101, 110, 116, 58, 32, 112, 114,
      111, 102, 105, 108, 101, 10, 100, 97, 116, 97, 58, 32, 52, 50, 10,
      10>>

\* 'id: 2\nevent: avatar\ndata: 7\n\n'
ExpectedFrame2 ==
    <<105, 100, 58, 32, 50, 10, 101, 118, 101, 110, 116, 58, 32, 97, 118,
      97, 116, 97, 114, 10, 100, 97, 116, 97, 58, 32, 55, 10, 10>>

\* 'id: 10\nevent: profile\ndata: 42\n\n'
ExpectedFrame10 ==
    <<105, 100, 58, 32, 49, 48, 10, 101, 118, 101, 110, 116, 58, 32, 112,
      114, 111, 102, 105, 108, 101, 10, 100, 97, 116, 97, 58, 32, 52, 50,
      10, 10>>

\* C15: the frames are the literal strings of the format: ('profile', '42')
\* then ('avatar', '7') give 'id: 1\nevent: profile\ndata: 42\n\n' then
\* 'id: 2\nevent: avatar\ndata: 7\n\n', the id is in decimal, and two
\* sessions write the same frame for the same id, channel and payload.
C15_ExactFrames ==
    /\ Format(10, Utf8Decode(ChProfile).text, Utf8Decode(Payload42).text)
           = ExpectedFrame10
    /\ \A c \in Conns :
           LET rc == received[HandleOf(c)]
               fr == Frames(c)
           IN /\ (Len(fr) >= 1 /\ rc[1] = DataMessage(ChProfile, Payload42))
                     => fr[1] = ExpectedFrame1
              /\ (Len(fr) >= 2 /\ rc[1] = DataMessage(ChProfile, Payload42)
                               /\ rc[2] = DataMessage(ChAvatar, Payload7))
                     => fr[2] = ExpectedFrame2
    /\ \A c, d \in Conns :
           \A k \in 1..Len(Frames(c)) :
               (k <= Len(Frames(d))
                  /\ received[HandleOf(c)][k] = received[HandleOf(d)][k])
                   => Frames(c)[k] = Frames(d)[k]

\* C15 witness: a session that has written exactly the two frames of the
\* scenario.
C15_Witness ==
    \E c \in Conns : Frames(c) = <<ExpectedFrame1, ExpectedFrame2>>

InRegistry(m) == m.channel \in CHANNELS

\* The events published since c subscribed that are on registry channels.
Entitled(c) == SelectSeq(SubSeq(log, subAt[c] + 1, Len(log)), InRegistry)

\* C16: a session is sent events of the registry's channels only and of all
\* of them: every frame names a channel of CHANNELS, and a live session has
\* framed or still has queued exactly the registry events published since it
\* subscribed.
C16_OnlyRegistryChannels ==
    \A c \in Conns :
        /\ \A k \in 1..Len(Frames(c)) :
               Utf8Encode(FrameEvent(Frames(c)[k])) \in CHANNELS
        /\ \A k \in 1..Len(received[HandleOf(c)]) :
               InRegistry(received[HandleOf(c)][k])
        /\ (pc[c] = "Waiting" /\ pubsub[HandleOf(c)] = "subscribed") =>
               Len(Frames(c)) + Len(SelectSeq(inbox[HandleOf(c)], IsData))
                   = Len(Entitled(c))

\* C16 witness: a live session that was subscribed when an event on 'note'
\* and then one on 'profile' were published, and has written one frame.
C16_Witness ==
    \E c \in Conns :
        /\ pc[c] = "Waiting" /\ pubsub[HandleOf(c)] = "subscribed"
        /\ subAt[c] = 0
        /\ log = <<DataMessage(ChNote, Payload7), DataMessage(ChProfile, Payload42)>>
        /\ Len(Frames(c)) = 1
        /\ SelectSeq(inbox[HandleOf(c)], IsData) = <<>>

\* C17: a stream is Closed only by a write to a closed client, and neither
\* the step that closes it nor any later step writes a chunk or changes its
\* event_id.
C17_NoRetryAfterFailedWrite ==
    [][ \A c \in Conns :
            pc'[c] = "Closed" =>
                /\ pc[c] = "Closed" \/ ~clientOpen[c]
                /\ written'[c] = written[c]
                /\ event_id'[c] = event_id[c]
      ]_vars

\* C17 witness: a stream closed on the failed write of its second frame: one
\* frame written, both messages taken, event_id still 2.
C17_Witness ==
    \E c \in Conns :
        /\ pc[c] = "Closed"
        /\ Len(Frames(c)) = 1
        /\ Len(received[HandleOf(c)]) = 2
        /\ SelectSeq(inbox[HandleOf(c)], IsData) = <<>>
        /\ event_id[c] = 2

\* C18: a stream that has not started its generator is subscribed already
\* and has written nothing; and every registry event published since the
\* subscription is eventually framed by the session unless the session ends.
C18_PublishedEventuallyFramed ==
    /\ [](\A c \in WireConns :
              pc[c] = "Priming" =>
                  pubsub[HandleOf(c)] # "none" /\ written[c] = <<>>)
    /\ \A c \in WireConns :
           \A k \in 1..MaxPublish :
               (pc[c] \in {"Priming", "Waiting"} /\ Len(Entitled(c)) >= k)
                   ~> (pc[c] \in Terminal \/ Len(Frames(c)) >= k)

\* C18 witness: a session that was primed with one event already queued and
\* has framed it and one published later.
C18_Witness ==
    \E c \in Conns :
        /\ pc[c] = "Waiting"
        /\ pendingAtPrime[c] = 1
        /\ Len(Frames(c)) = 2

\* C19: the step that constructs a Profile leaves it with exactly one entry
\* in its usernames, whose username is the profile's username: the very
\* object it was given, unchanged, when it was given a ProfileUsername, and
\* a new object with start_date equal to end_date when it was given a string.
C19_OneUsernameEntry ==
    [][ Len(profiles') = Len(profiles) + 1 =>
          LET p == Len(profiles')
              r == profiles'[p]
              b == built'[p]
              e == usernames'[r.usernames[1]]
          IN /\ Len(r.usernames) = 1
             /\ e.username = r.username
             /\ e.profile = p
             /\ b.kind = "object" =>
                    /\ r.usernames[1] = b.object
                    /\ b.object \in 1..Len(usernames)
                    /\ Len(usernames') = Len(usernames)
                    /\ e = [usernames[b.object] EXCEPT !.profile = p]
             /\ b.kind = "str" =>
                    /\ r.username = b.name
                    /\ r.usernames[1] = Len(usernames) + 1
                    /\ Len(usernames') = Len(usernames) + 1
                    /\ e.start_date.kind = "datetime"
                    /\ e.start_date = e.end_date
      ]_vars

\* C19 witness: one profile made from a ProfileUsername whose two dates
\* differ and one made from a string.
C19_Witness ==
    /\ Len(profiles) = 2
    /\ built[1].kind = "object"
    /\ usernames[built[1].object].start_date
           # usernames[built[1].object].end_date
    /\ built[2].kind = "str"

====
